---- MODULE Spec2Model ----
(***************************************************************************)
(* ClarityPay credit scoring service: src/src/api/main.py (the /predict,   *)
(* /stats, /recent and /health handlers, the decision policy and the rule  *)
(* based explanation) and src/src/api/database.py (PredictionLogger, the   *)
(* MongoDB decision store).                                                *)
(*                                                                         *)
(* Number representation.  The program computes with IEEE doubles; the     *)
(* model uses fixed point integers:                                        *)
(*   probabilities          in units of 1/ProbScale   (0.1059 = 10590)     *)
(*   default_probability    of a response in units of 1/10000              *)
(*   ratios (dti, util)     in hundredths              (0.35  = 35)        *)
(*   money in               dollars, monthly_payment in cents              *)
(*   apr                    in hundredths of a percent (8.99  = 899)       *)
(*   approval_rate          in thousandths                                 *)
(* Where the double arithmetic of the program differs from exact           *)
(* arithmetic on these grids, the difference is part of the model (see     *)
(* ProductBelowInteger, DistanceAboveBand, HalfCentRoundsUp).              *)
(***************************************************************************)
EXTENDS Integers, Sequences, FiniteSets, TLC

VARIABLES
    model,          \* main.py global `model`: "None" or the loaded artifact
    db,             \* logger.db: "None" or the connected database handle
    db_bool,        \* the build: what the truth value of a Database object does
    pending,        \* log_prediction calls that built a document and wait in insert_one
    storeUp,        \* environment: does the MongoDB server answer requests
    store,          \* the predictions collection, in insertion order
    now,            \* environment: the clock datetime.utcnow() reads
    response,       \* the response to the last request that completed
    doc_id,         \* what log_prediction returned to the last predict call
    scored,         \* did the last predict call reach model.predict_proba
    earlier,        \* observer: one earlier /predict response, kept for comparison
    stats_pc,       \* position of the get_stats call in flight
    stats_total,    \* its local `total`
    stats_approved, \* its local `approved`
    stats_start,    \* observer: size of the collection when that call began
    arg,            \* argument of a pure function under test
    ret             \* its result

vars == <<model, db, db_bool, pending, storeUp, store, now, response, doc_id, scored, earlier,
          stats_pc, stats_total, stats_approved, stats_start, arg, ret>>

None == "None"

(***************************************************************************)
(* Bounds of the model.                                                    *)
(***************************************************************************)
MaxStore == 2       \* documents the collection may hold
MaxClock == 1       \* ticks of the clock
MaxLimit == 2       \* largest `limit` a /recent request carries

ProbScale == 100000 \* fixed point resolution of a probability

Min(a, b) == IF a <= b THEN a ELSE b
Max(a, b) == IF a >= b THEN a ELSE b
Abs(x) == IF x < 0 THEN -x ELSE x

(***************************************************************************)
(* Python's round(): the nearest value, an exact tie going to the even     *)
(* neighbour.  PyRound(num, den) is round(num/den) for num >= 0, den > 0.  *)
(* It is used only where a tie, if one occurs, is an exactly representable *)
(* double (x.5 of an integer result).                                      *)
(***************************************************************************)
PyRound(num, den) ==
    LET q == num \div den
        r == num % den
    IN  IF 2 * r < den THEN q
        ELSE IF 2 * r > den THEN q + 1
        ELSE IF q % 2 = 0 THEN q ELSE q + 1

(***************************************************************************)
(* credit_score = int((1 - default_probability) * 850)      main.py:205    *)
(* int() truncates.  For the probabilities below the double product        *)
(* (1 - p) * 850 falls just under the integer that exact arithmetic gives  *)
(* (1 - 0.8 is 0.19999999999999996, times 850 is 169.99999999999997), so   *)
(* the truncation is one lower; these are all such points of the grid.     *)
(***************************************************************************)
ProductBelowInteger == {34000, 54000, 56000, 68000, 78000, 80000, 90000, 92000}

CreditScoreRounded(p) == PyRound((ProbScale - p) * 850, ProbScale)

CreditScore(p) ==
    LET exact == ((ProbScale - p) * 850) \div ProbScale
    IN  IF p \in ProductBelowInteger THEN exact - 1 ELSE exact

(***************************************************************************)
(* round(purchase_amount * factor / term, 2)          main.py:86,94,102    *)
(* in cents.  An amount whose exact payment ends in half a cent is rounded *)
(* as the double lies: up for the pairs <<amount, term>> listed, down for  *)
(* the other ties of PurchaseAmounts.                                      *)
(***************************************************************************)
HalfCentRoundsUp == {<<200, 12>>}

MonthlyPayment(purchase_amount, factor, term) ==
    LET num == purchase_amount * factor
        den == 100 * term
        q == num \div den
        r == num % den
    IN  IF 2 * r < den THEN q
        ELSE IF 2 * r > den THEN q + 1
        ELSE IF <<purchase_amount, term>> \in HalfCentRoundsUp THEN q + 1 ELSE q

DeclineReason == "Credit score below minimum threshold (550)"

calculate_loan_terms_shifted(credit_score, purchase_amount) ==
    IF credit_score > 750 THEN
        [approved |-> TRUE, term_months |-> 12, apr |-> 899,
         monthly_payment |-> MonthlyPayment(purchase_amount, 10899, 12),
         risk_tier |-> "Prime"]
    ELSE IF credit_score > 650 THEN
        [approved |-> TRUE, term_months |-> 6, apr |-> 1499,
         monthly_payment |-> MonthlyPayment(purchase_amount, 11499, 6),
         risk_tier |-> "Near-Prime"]
    ELSE IF credit_score > 550 THEN
        [approved |-> TRUE, term_months |-> 4, apr |-> 2299,
         monthly_payment |-> MonthlyPayment(purchase_amount, 12299, 4),
         risk_tier |-> "Subprime"]
    ELSE
        [approved |-> FALSE, reason |-> DeclineReason, risk_tier |-> "High Risk"]

calculate_loan_terms(credit_score, purchase_amount) ==
    IF credit_score >= 750 THEN
        [approved |-> TRUE, term_months |-> 12, apr |-> 899,
         monthly_payment |-> MonthlyPayment(purchase_amount, 10899, 12),
         risk_tier |-> "Prime"]
    ELSE IF credit_score >= 650 THEN
        [approved |-> TRUE, term_months |-> 6, apr |-> 1499,
         monthly_payment |-> MonthlyPayment(purchase_amount, 11499, 6),
         risk_tier |-> "Near-Prime"]
    ELSE IF credit_score >= 550 THEN
        [approved |-> TRUE, term_months |-> 4, apr |-> 2299,
         monthly_payment |-> MonthlyPayment(purchase_amount, 12299, 4),
         risk_tier |-> "Subprime"]
    ELSE
        [approved |-> FALSE, reason |-> DeclineReason, risk_tier |-> "High Risk"]

(***************************************************************************)
(* get_simple_explanation                               main.py:112-157    *)
(* Ratios are in hundredths, so 0.5 is 50, 0.3 is 30 and 0.7 is 70.        *)
(***************************************************************************)
Factor(name, value, impact) == [factor |-> name, value |-> value, impact |-> impact]

DtiFactor(f) ==
    IF f.debt_to_income_ratio > 50
        THEN <<Factor("High debt-to-income ratio", f.debt_to_income_ratio, "negative")>>
    ELSE IF f.debt_to_income_ratio < 30
        THEN <<Factor("Low debt-to-income ratio", f.debt_to_income_ratio, "positive")>>
    ELSE <<>>

LateFactorOffByOne(f) ==
    IF f.num_late_payments > 2
        THEN <<Factor("Multiple late payments", f.num_late_payments, "negative")>>
    ELSE IF f.num_late_payments <= 1
        THEN <<Factor("No late payments", f.num_late_payments, "positive")>>
    ELSE <<>>

LateFactor(f) ==
    IF f.num_late_payments > 2
        THEN <<Factor("Multiple late payments", f.num_late_payments, "negative")>>
    ELSE IF f.num_late_payments = 0
        THEN <<Factor("No late payments", f.num_late_payments, "positive")>>
    ELSE <<>>

UtilFactor(f) ==
    IF f.credit_utilization > 70
        THEN <<Factor("High credit utilization", f.credit_utilization, "negative")>>
    ELSE IF f.credit_utilization < 30
        THEN <<Factor("Low credit utilization", f.credit_utilization, "positive")>>
    ELSE <<>>

get_simple_explanation(f) ==
    LET explanations == DtiFactor(f) \o LateFactor(f) \o UtilFactor(f)
    IN  SubSeq(explanations, 1, Min(3, Len(explanations)))

(***************************************************************************)
(* confidence                                           main.py:213-219    *)
(* abs(p - 0.5) > 0.3 / > 0.15 on doubles.  At the three probabilities     *)
(* below the double distance exceeds the band edge it equals exactly       *)
(* (abs(0.8 - 0.5) is 0.30000000000000004).                                *)
(***************************************************************************)
DistanceAboveBand == {35000, 65000, 80000}

Confidence(p) ==
    LET d == Abs(p - ProbScale \div 2)
        above == p \in DistanceAboveBand
    IN  IF d * 10 > ProbScale * 3 \/ (d * 10 = ProbScale * 3 /\ above) THEN "HIGH"
        ELSE IF d * 100 > ProbScale * 15 \/ (d * 100 = ProbScale * 15 /\ above)
            THEN "MEDIUM"
        ELSE "LOW"

(***************************************************************************)
(* round(default_probability, 4)                           main.py:225     *)
(* in units of 1/10000.  A probability exactly half way between two such   *)
(* values (p % 10 = 5) is rounded as its double lies; no artifact of the   *)
(* model returns one.                                                      *)
(***************************************************************************)
RoundProbability(p) == (p + 5) \div 10

(***************************************************************************)
(* CreditApplication and its Field constraints           main.py:51-61     *)
(***************************************************************************)
NumericFields ==
    {"age", "annual_income", "debt_to_income_ratio", "num_credit_lines",
     "num_late_payments", "credit_utilization", "months_since_last_delinquency",
     "num_credit_inquiries", "purchase_amount"}

InBound(field, v) ==
    CASE field = "age" -> v >= 18 /\ v <= 100
      [] field = "debt_to_income_ratio" -> v >= 0 /\ v <= 500
      [] field = "credit_utilization" -> v >= 0 /\ v <= 200
      [] OTHER -> v >= 0

NoViolations(a) == {}

\* The fields the 422 response of the framework names.
Violations(a) == {field \in NumericFields : ~InBound(field, a[field])}

Valid(a) == Violations(a) = {}

(***************************************************************************)
(* features = np.array([[...]])                          main.py:191-201   *)
(* The nine features in the order of feature_names (main.py:33-37); the    *)
(* applicant_id is not a feature.                                          *)
(***************************************************************************)
Features(a) ==
    [age |-> a.age, annual_income |-> a.annual_income,
     debt_to_income_ratio |-> a.debt_to_income_ratio,
     num_credit_lines |-> a.num_credit_lines,
     num_late_payments |-> a.num_late_payments,
     credit_utilization |-> a.credit_utilization,
     months_since_last_delinquency |-> a.months_since_last_delinquency,
     num_credit_inquiries |-> a.num_credit_inquiries,
     purchase_amount |-> a.purchase_amount]

(***************************************************************************)
(* The trained classifier (models/credit_model.pkl) is an opaque artifact: *)
(* a deterministic function from the feature vector to a probability.  Two *)
(* stand-ins are enough to tell "the same model" from "another model".     *)
(***************************************************************************)
Artifacts == {"credit_model_a", "credit_model_b"}

PredictProba(m, f) ==
    IF m = "credit_model_a"
    THEN Min(ProbScale, 1840 + 100 * f.debt_to_income_ratio
                        + 3000 * f.num_late_payments + 50 * f.credit_utilization)
    ELSE Min(ProbScale, 5003 + 200 * f.debt_to_income_ratio
                        + 10000 * f.num_late_payments)

(***************************************************************************)
(* The body of predict_credit_risk up to "Build response" main.py:203-231  *)
(***************************************************************************)
Decide(p, purchase_amount) ==
    [credit_score |-> CreditScore(p),
     terms |-> calculate_loan_terms(CreditScore(p), purchase_amount)]

\* The response carrying the time of the decision as well.
BuildResultStamped(application, m) ==
    LET features == Features(application)
        default_probability == PredictProba(m, features)
        d == Decide(default_probability, application.purchase_amount)
    IN  [applicant_id |-> application.applicant_id,
         credit_score |-> d.credit_score,
         default_probability |-> RoundProbability(default_probability),
         approval_recommendation |->
             IF d.terms.approved THEN "APPROVED" ELSE "DECLINED",
         recommended_terms |-> d.terms,
         explanation |-> get_simple_explanation(features),
         confidence |-> Confidence(default_probability),
         model_version |-> "1.0.0",
         timestamp |-> now]

BuildResult(application, m) ==
    LET features == Features(application)
        default_probability == PredictProba(m, features)
        d == Decide(default_probability, application.purchase_amount)
    IN  [applicant_id |-> application.applicant_id,
         credit_score |-> d.credit_score,
         default_probability |-> RoundProbability(default_probability),
         approval_recommendation |->
             IF d.terms.approved THEN "APPROVED" ELSE "DECLINED",
         recommended_terms |-> d.terms,
         explanation |-> get_simple_explanation(features),
         confidence |-> Confidence(default_probability),
         model_version |-> "1.0.0"]

(***************************************************************************)
(* PredictionLogger                                   database.py:10-120   *)
(* Every method begins with `not self.db`, outside its try.  What that     *)
(* does with a connected logger depends on the pymongo the service is      *)
(* built with, which nothing in the repository pins: a Database object of  *)
(* pymongo < 4 has the default truth value (true), one of pymongo >= 4     *)
(* raises NotImplementedError.  db_bool is that build.                     *)
(***************************************************************************)
Database == "credit_scoring"

Builds == {"default", "raises"}

\* bool(self.db): "falsy" for None, else what the build does.
TruthValue ==
    IF db = None THEN "falsy"
    ELSE IF db_bool = "raises" THEN "raises"
    ELSE "truthy"

\* database.py:46-51.  The timestamp is read here, before insert_one is
\* called.  insert_one encodes the document when it is called, so the stored
\* decision is the result as it was before main.py:236 adds logged_to_mongodb.
Document(application, prediction) ==
    [timestamp |-> now,
     application |-> application,
     prediction |-> prediction,
     model_version |-> "1.0.0"]

\* database.py:42-51: the exception of the truth test leaves the method, a
\* logger without a database returns None (<<>>), a connected one goes on to
\* insert_one with the document it built.
log_prediction(application, prediction) ==
    CASE TruthValue = "raises" -> [outcome |-> "raised"]
      [] TruthValue = "falsy" -> [outcome |-> "returned"]
      [] OTHER -> [outcome |-> "insert",
                   document |-> Document(application, prediction)]

\* An insert that writes the document over the collection.
InsertOneOverwriting(collection, document) ==
    <<[_id |-> 1] @@ document>>

\* database.py:53: the collection after insert_one, which gives the document
\* its _id.
InsertOne(collection, document) ==
    Append(collection, [_id |-> Len(collection) + 1] @@ document)

\* datetime.isoformat(): the timestamp as a string, not as a datetime.
IsoFormat(t) == [iso |-> t]

\* The projection {"_id": 0} and the conversion of database.py:73-75.
Project(doc) ==
    [timestamp |-> IsoFormat(doc.timestamp),
     application |-> doc.application,
     prediction |-> doc.prediction,
     model_version |-> doc.model_version]

\* sort("timestamp", -1): every order of the documents with timestamps
\* descending; MongoDB fixes no order among equal timestamps.
SortedOrders(s) ==
    {q \in [1..Len(s) -> 1..Len(s)] :
        /\ \A i, j \in 1..Len(s) : i # j => q[i] # q[j]
        /\ \A i, j \in 1..Len(s) : i < j => s[q[i]].timestamp >= s[q[j]].timestamp}

\* Cursor.limit(limit) of pymongo: a limit of 0 is no limit, and a negative
\* limit is sent to the server as its absolute value (in a single batch).
CursorLimit(docs, limit) ==
    IF limit = 0 THEN docs
    ELSE SubSeq(docs, 1, Min(Abs(limit), Len(docs)))

\* What get_recent_predictions may do: raise at the truth test, or return
\* one of these lists.
get_recent_predictions(limit) ==
    IF TruthValue = "raises" THEN {[raised |-> TRUE, value |-> <<>>]}
    ELSE IF TruthValue = "falsy" THEN {[raised |-> FALSE, value |-> <<>>]}
    ELSE IF ~storeUp THEN {[raised |-> FALSE, value |-> <<>>]}
    ELSE {[raised |-> FALSE,
           value |-> CursorLimit([i \in 1..Len(store) |-> Project(store[q[i]])],
                                 limit)] :
            q \in SortedOrders(store)}

RECURSIVE SumScores(_)
SumScores(s) ==
    IF s = <<>> THEN 0
    ELSE s[1].prediction.credit_score + SumScores(Tail(s))

ApprovedCount(s) ==
    Cardinality({i \in 1..Len(s) :
        s[i].prediction.approval_recommendation = "APPROVED"})

\* get_stats after count_documents({}): the early return of database.py:90-96.
StatsAfterCount(total) ==
    IF total = 0
    THEN [done |-> TRUE,
          body |-> [connected |-> TRUE, total_predictions |-> 0,
                    approval_rate |-> 0,
                    message |-> "No predictions logged yet"]]
    ELSE [done |-> FALSE]

\* The result of database.py:113-118.  round(approved / total, 3) in
\* thousandths, round(avg_score, 0) as an integer; avg_score is 0 when the
\* aggregation returns no group.
StatsResult(total, approved, docs) ==
    [connected |-> TRUE,
     total_predictions |-> total,
     approval_rate |-> IF total > 0 THEN PyRound(approved * 1000, total) ELSE 0,
     average_credit_score |->
         IF Len(docs) > 0 THEN PyRound(SumScores(docs), Len(docs)) ELSE 0]

StatsError == [connected |-> TRUE, error |-> "store error"]

(***************************************************************************)
(* Requests the environment sends.                                         *)
(***************************************************************************)
Demo ==
    [applicant_id |-> "APP_DEMO_001", age |-> 35, annual_income |-> 65000,
     debt_to_income_ratio |-> 35, num_credit_lines |-> 5, num_late_payments |-> 1,
     credit_utilization |-> 45, months_since_last_delinquency |-> 24,
     num_credit_inquiries |-> 2, purchase_amount |-> 3500]

Risky ==
    [Demo EXCEPT !.applicant_id = "APP_RISKY", !.debt_to_income_ratio = 80,
                 !.num_late_payments = 4, !.credit_utilization = 90,
                 !.purchase_amount = 200]

Minor == [Demo EXCEPT !.applicant_id = "APP_MINOR", !.age = 17]

Applications == {Demo, Risky, Minor}

\* The values of a field at and next to the ends of its declared range.
BoundaryValues(field) ==
    CASE field = "age" -> {17, 18, 100, 101}
      [] field = "debt_to_income_ratio" -> {-1, 0, 500, 501}
      [] field = "credit_utilization" -> {-1, 0, 200, 201}
      [] OTHER -> {-1, 0}

BoundaryApplications ==
    {[Demo EXCEPT ![field] = v] : <<field, v>> \in
        UNION {{<<f, w>> : w \in BoundaryValues(f)} : f \in NumericFields}}

DefaultLimit == 10

Limits == (-1..MaxLimit) \cup {DefaultLimit}

Response(op, request, status, body) ==
    [op |-> op, request |-> request, status |-> status, body |-> body]

NoResponse == Response("none", None, 0, None)

\* What the framework answers when a handler lets an exception escape: the
\* plain text of status 500, not a JSON object.
ServerError == [text |-> "Internal Server Error"]

(***************************************************************************)
(* The state after import and construction: no model yet (main.py:32), the *)
(* logger connected or not (database.py:13-32), an empty collection.       *)
(***************************************************************************)
Init ==
    /\ model = None
    /\ db \in {None, Database}
    /\ db_bool \in Builds
    /\ pending = <<>>
    /\ storeUp = TRUE
    /\ store = <<>>
    /\ now = 0
    /\ response = NoResponse
    /\ doc_id = <<>>
    /\ scored = FALSE
    /\ earlier = NoResponse
    /\ stats_pc = "idle"
    /\ stats_total = 0
    /\ stats_approved = 0
    /\ stats_start = 0
    /\ arg = [none |-> TRUE]
    /\ ret = [done |-> FALSE]

\* main.py:39-48.  A failed load raises and the service does not start.
load_model ==
    /\ model = None
    /\ model' \in Artifacts
    /\ UNCHANGED <<db, db_bool, pending, storeUp, store, now, response, doc_id, scored, earlier,
                   stats_pc, stats_total, stats_approved, stats_start, arg, ret>>

(***************************************************************************)
(* predict_credit_risk: main.py:183-241, behind the validation of the      *)
(* request body (main.py:51-61).  A call that reaches insert_one has read  *)
(* the clock and waits for the store; handlers run on a thread pool, so    *)
(* other requests run in between.  Every other call ends in its first step.*)
(***************************************************************************)
predict_credit_risk(application) ==
    /\ Len(store) + Len(pending) < MaxStore
    /\ IF ~Valid(application) THEN
            /\ response' = Response("predict", application, 422,
                                    [detail |-> Violations(application)])
            /\ scored' = FALSE
            /\ doc_id' = <<>>
            /\ pending' = pending
       ELSE IF model = None THEN
            /\ response' = Response("predict", application, 503,
                                    [detail |-> "Model not loaded"])
            /\ scored' = FALSE
            /\ doc_id' = <<>>
            /\ pending' = pending
       ELSE LET result == BuildResult(application, model)
                log == log_prediction(application, result)
            IN  CASE log.outcome = "raised" ->
                        \* main.py:240-241
                        /\ response' = Response("predict", application, 500,
                                                [detail |-> "Prediction error: Database objects do not implement truth value testing or bool()"])
                        /\ scored' = TRUE
                        /\ doc_id' = <<>>
                        /\ pending' = pending
                  [] log.outcome = "returned" ->
                        /\ response' = Response("predict", application, 200, result)
                        /\ scored' = TRUE
                        /\ doc_id' = <<>>
                        /\ pending' = pending
                  [] OTHER ->
                        /\ pending' = Append(pending,
                                [result |-> result, document |-> log.document])
                        /\ UNCHANGED <<response, scored, doc_id>>
    /\ UNCHANGED <<model, db, db_bool, storeUp, store, now, earlier,
                   stats_pc, stats_total, stats_approved, stats_start, arg, ret>>

\* database.py:53-58 and main.py:235-238 of a waiting call: insert_one
\* answers, or raises (caught, None is returned) when the server is away.
predict_insert(i) ==
    LET call == pending[i]
    IN  /\ pending' = [j \in 1..(Len(pending) - 1) |->
                          IF j < i THEN pending[j] ELSE pending[j + 1]]
        /\ scored' = TRUE
        /\ IF storeUp THEN
                /\ store' = InsertOne(store, call.document)
                /\ doc_id' = <<Len(store) + 1>>
                /\ response' = Response("predict", call.document.application, 200,
                                        call.result @@ [logged_to_mongodb |-> TRUE])
           ELSE /\ store' = store
                /\ doc_id' = <<>>
                /\ response' = Response("predict", call.document.application, 200,
                                        call.result)
        /\ UNCHANGED <<model, db, db_bool, storeUp, now, earlier,
                       stats_pc, stats_total, stats_approved, stats_start, arg, ret>>

\* main.py:248-252 with database.py:60-80.
recent(limit) ==
    /\ \E got \in get_recent_predictions(limit) :
          response' =
             IF got.raised THEN Response("recent", limit, 500, ServerError)
             ELSE Response("recent", limit, 200,
                           [count |-> Len(got.value), predictions |-> got.value])
    /\ UNCHANGED <<model, db, db_bool, pending, storeUp, store, now, doc_id, scored, earlier,
                   stats_pc, stats_total, stats_approved, stats_start, arg, ret>>

(***************************************************************************)
(* get_stats (main.py:243-246, database.py:82-120) asks the store three    *)
(* times; handlers run on a thread pool, so other requests run in between. *)
(***************************************************************************)
\* database.py:84-96: the test for a connection and count_documents({}).
get_stats_count ==
    /\ stats_pc = "idle"
    /\ IF TruthValue = "raises" THEN
            /\ response' = Response("stats", None, 500, ServerError)
            /\ UNCHANGED <<stats_pc, stats_total, stats_start>>
       ELSE IF TruthValue = "falsy" THEN
            /\ response' = Response("stats", None, 200,
                   [connected |-> FALSE, message |-> "MongoDB not connected"])
            /\ UNCHANGED <<stats_pc, stats_total, stats_start>>
       ELSE IF ~storeUp THEN
            /\ response' = Response("stats", None, 200, StatsError)
            /\ UNCHANGED <<stats_pc, stats_total, stats_start>>
       ELSE IF StatsAfterCount(Len(store)).done THEN
            /\ response' = Response("stats", None, 200,
                                    StatsAfterCount(Len(store)).body)
            /\ stats_start' = Len(store)
            /\ UNCHANGED <<stats_pc, stats_total>>
       ELSE /\ stats_pc' = "approved"
            /\ stats_total' = Len(store)
            /\ stats_start' = Len(store)
            /\ response' = response
    /\ stats_approved' = 0
    /\ UNCHANGED <<model, db, db_bool, pending, storeUp, store, now, doc_id, scored, earlier, arg, ret>>

\* database.py:98-101: count_documents of the approved decisions.
get_stats_approved ==
    /\ stats_pc = "approved"
    /\ IF ~storeUp THEN
            /\ response' = Response("stats", None, 200, StatsError)
            /\ stats_pc' = "idle"
            /\ stats_approved' = 0
       ELSE /\ stats_approved' = ApprovedCount(store)
            /\ stats_pc' = "average"
            /\ response' = response
    /\ UNCHANGED <<model, db, db_bool, pending, storeUp, store, now, doc_id, scored, earlier,
                   stats_total, stats_start, arg, ret>>

\* database.py:103-118: the aggregation, and the result.
get_stats_average ==
    /\ stats_pc = "average"
    /\ response' =
         IF ~storeUp THEN Response("stats", None, 200, StatsError)
         ELSE Response("stats", None, 200,
                       StatsResult(stats_total, stats_approved, store))
    /\ stats_pc' = "idle"
    /\ UNCHANGED <<model, db, db_bool, pending, storeUp, store, now, doc_id, scored, earlier,
                   stats_total, stats_approved, stats_start, arg, ret>>

\* main.py:174-181.
health_check ==
    /\ response' = Response("health", None, 200,
                            [status |-> "healthy",
                             model_loaded |-> model # None,
                             mongodb_connected |-> db # None,
                             version |-> "1.0.0"])
    /\ UNCHANGED <<model, db, db_bool, pending, storeUp, store, now, doc_id, scored, earlier,
                   stats_pc, stats_total, stats_approved, stats_start, arg, ret>>

\* The environment: time passes, the MongoDB server goes away and comes back.
Tick ==
    /\ now < MaxClock
    /\ now' = now + 1
    /\ UNCHANGED <<model, db, db_bool, pending, storeUp, store, response, doc_id, scored, earlier,
                   stats_pc, stats_total, stats_approved, stats_start, arg, ret>>

Outage ==
    /\ db # None
    /\ storeUp
    /\ storeUp' = FALSE
    /\ UNCHANGED <<model, db, db_bool, pending, store, now, response, doc_id, scored, earlier,
                   stats_pc, stats_total, stats_approved, stats_start, arg, ret>>

Recover ==
    /\ ~storeUp
    /\ storeUp' = TRUE
    /\ UNCHANGED <<model, db, db_bool, pending, store, now, response, doc_id, scored, earlier,
                   stats_pc, stats_total, stats_approved, stats_start, arg, ret>>

\* Observer: keep the /predict response just returned, to compare a later one with.
Remember ==
    /\ response.op = "predict"
    /\ earlier' = response
    /\ UNCHANGED <<model, db, db_bool, pending, storeUp, store, now, response, doc_id, scored,
                   stats_pc, stats_total, stats_approved, stats_start, arg, ret>>

(***************************************************************************)
(* The service: every request handler, the clock and the store's outages.  *)
(***************************************************************************)
Next ==
    \/ load_model
    \/ \E application \in Applications : predict_credit_risk(application)
    \/ \E i \in 1..Len(pending) : predict_insert(i)
    \/ \E limit \in {0, DefaultLimit} : recent(limit)
    \/ get_stats_count
    \/ get_stats_approved
    \/ get_stats_average
    \/ health_check
    \/ Tick
    \/ Outage
    \/ Recover

Spec == Init /\ [][Next]_vars

\* /predict alone, with store outages and an observer of two of its responses.
NextPredict ==
    \/ load_model
    \/ \E application \in Applications : predict_credit_risk(application)
    \/ \E i \in 1..Len(pending) : predict_insert(i)
    \/ Tick
    \/ Outage
    \/ Recover
    \/ Remember

SpecPredict == Init /\ [][NextPredict]_vars

\* /stats running concurrently with /predict.
NextStats ==
    \/ load_model
    \/ \E application \in Applications : predict_credit_risk(application)
    \/ \E i \in 1..Len(pending) : predict_insert(i)
    \/ get_stats_count
    \/ get_stats_approved
    \/ get_stats_average
    \/ Outage
    \/ Recover

SpecStats == Init /\ [][NextStats]_vars

\* /recent with every limit, after /predict calls at different times.
NextRecent ==
    \/ load_model
    \/ \E application \in Applications : predict_credit_risk(application)
    \/ \E i \in 1..Len(pending) : predict_insert(i)
    \/ \E limit \in Limits : recent(limit)
    \/ Tick
    \/ Outage
    \/ Recover

SpecRecent == Init /\ [][NextRecent]_vars

\* /predict on applications at and beyond the bounds of every field.
NextValidation ==
    \/ load_model
    \/ \E application \in BoundaryApplications : predict_credit_risk(application)
    \/ \E i \in 1..Len(pending) : predict_insert(i)

SpecValidation == Init /\ [][NextValidation]_vars

(***************************************************************************)
(* The pure functions, applied to inputs drawn from bounded sets.          *)
(***************************************************************************)
PurchaseAmounts == {0, 100, 200, 3500}

InitPure(args) ==
    /\ model = None
    /\ db = None
    /\ db_bool = "default"
    /\ pending = <<>>
    /\ storeUp = TRUE
    /\ store = <<>>
    /\ now = 0
    /\ response = NoResponse
    /\ doc_id = <<>>
    /\ scored = FALSE
    /\ earlier = NoResponse
    /\ stats_pc = "idle"
    /\ stats_total = 0
    /\ stats_approved = 0
    /\ stats_start = 0
    /\ arg \in args
    /\ ret = [done |-> FALSE]

Return(value) ==
    /\ ~ret.done
    /\ ret' = [done |-> TRUE, value |-> value]
    /\ UNCHANGED <<model, db, db_bool, pending, storeUp, store, now, response, doc_id, scored,
                   earlier, stats_pc, stats_total, stats_approved, stats_start, arg>>

\* main.py:204-208 for every probability of the grid.
ApplyDecide == Return(Decide(arg.p, arg.purchase_amount))

SpecScore ==
    InitPure([p : 0..ProbScale, purchase_amount : {3500}]) /\ [][ApplyDecide]_vars

\* calculate_loan_terms for every score of the scale.
ApplyTerms == Return(calculate_loan_terms(arg.credit_score, arg.purchase_amount))

SpecTerms ==
    InitPure([credit_score : 0..850, purchase_amount : PurchaseAmounts])
    /\ [][ApplyTerms]_vars

\* get_simple_explanation around every threshold of its rules.
MaxLate == 3

ExplainInputs ==
    {Features([Demo EXCEPT !.debt_to_income_ratio = d, !.num_late_payments = l,
                           !.credit_utilization = u]) :
        d \in {0, 29, 30, 31, 49, 50, 51, 500},
        l \in 0..MaxLate,
        u \in {0, 29, 30, 31, 69, 70, 71, 200}}

ApplyExplain == Return(get_simple_explanation(arg))

SpecExplain == InitPure(ExplainInputs) /\ [][ApplyExplain]_vars

(***************************************************************************)
(*                              PROPERTIES                                 *)
(***************************************************************************)
\* The bounds of main.py:53-61 in the words of the interface description.
OutOfBounds(a) ==
    \/ a.age < 18 \/ a.age > 100
    \/ a.debt_to_income_ratio < 0 \/ a.debt_to_income_ratio > 500
    \/ a.credit_utilization < 0 \/ a.credit_utilization > 200
    \/ a.annual_income < 0 \/ a.num_credit_lines < 0 \/ a.num_late_payments < 0
    \/ a.months_since_last_delinquency < 0 \/ a.num_credit_inquiries < 0
    \/ a.purchase_amount < 0

\* A response body without the key logged_to_mongodb.
Strip(body) == [k \in DOMAIN body \ {"logged_to_mongodb"} |-> body[k]]

PrimeTerms(cents) ==
    [approved |-> TRUE, term_months |-> 12, apr |-> 899,
     monthly_payment |-> cents, risk_tier |-> "Prime"]

\* C1 as stated: for every default probability p in [0,1] the credit score is
\* (1 - p) * 850 rounded to the nearest integer and lies in 0..850; p = 0.1059
\* gives score 760, tier Prime, term 12, APR 8.99 and, for a purchase amount
\* of 3500, a monthly payment of 317.89.
C1_ScoreRounded ==
    ret.done =>
        LET x == (ProbScale - arg.p) * 850
            score == ret.value.credit_score
        IN  /\ score \in 0..850
            /\ 2 * Abs(score * ProbScale - x) <= ProbScale
            /\ arg.p = 10590 =>
                  /\ score = 760
                  /\ ret.value.terms = PrimeTerms(31789)

\* C1 amended: the credit score is (1 - p) * 850 truncated to an integer, not
\* rounded: score <= (1 - p) * 850 < score + 1, except that where the double
\* product falls just below a whole number the score is that number minus one;
\* it lies in 0..850; p = 0.1059 gives score 759, tier Prime, term 12, APR 8.99
\* and, for a purchase amount of 3500, a monthly payment of 317.89.
C1_ScoreTruncated ==
    ret.done =>
        LET x == (ProbScale - arg.p) * 850
            score == ret.value.credit_score
        IN  /\ score \in 0..850
            /\ score * ProbScale <= x
            /\ \/ x < (score + 1) * ProbScale
               \/ x = (score + 1) * ProbScale /\ arg.p \in ProductBelowInteger
            /\ arg.p = 10590 =>
                  /\ score = 759
                  /\ ret.value.terms = PrimeTerms(31789)

C1_Witness ==
    /\ ret.done
    /\ arg.p = 10590
    /\ arg.purchase_amount = 3500
    /\ ret.value.credit_score = 759
    /\ ret.value.terms.monthly_payment = 31789

\* C2: for every valid application with the model loaded, predict completes
\* successfully whether log_prediction succeeds, fails during the insert, or
\* the store is absent, and a record failure changes no part of the Decision
\* computed from the application (read here without the key logged_to_mongodb,
\* which main.py:235-236 adds to the response of a logged call).
C2_PredictSurvivesLogging ==
    (response.op = "predict" /\ ~OutOfBounds(response.request)
        /\ response.status # 503) =>
        /\ response.status = 200
        /\ Strip(response.body) = BuildResult(response.request, model)

\* Two /predict calls for the same application, both with the model loaded.
SameRequestTwice ==
    /\ response.op = "predict"
    /\ earlier.op = "predict"
    /\ response.status # 503
    /\ earlier.status # 503
    /\ response.request = earlier.request

\* C6 as stated: calling predict twice with the identical application and the
\* same loaded model yields an identical response, whatever happened between
\* the two calls.
C6_IdenticalResponses ==
    SameRequestTwice =>
        /\ response.status = earlier.status
        /\ response.body = earlier.body

\* C6 amended: the two responses are identical except for the key
\* logged_to_mongodb, which tells whether that call's decision was logged and
\* so depends on the store.
C6_IdenticalDecisions ==
    SameRequestTwice =>
        /\ response.status = earlier.status
        /\ Strip(response.body) = Strip(earlier.body)

\* The same application decided twice, logged once and not logged once.
C6_Witness ==
    /\ SameRequestTwice
    /\ response.status = 200
    /\ earlier.status = 200
    /\ "logged_to_mongodb" \in DOMAIN earlier.body
    /\ "logged_to_mongodb" \notin DOMAIN response.body

\* The collection as it was when it held n documents.
Prefix(n) == SubSeq(store, 1, n)

\* C3: every result of get_stats is consistent with one single state of the
\* store that existed during the call: total, approval rate and average score
\* are those of the same set of records, so the approval rate never exceeds 1.
C3_StatsSnapshot ==
    (response.op = "stats" /\ stats_pc = "idle"
        /\ "average_credit_score" \in DOMAIN response.body) =>
        /\ response.body.approval_rate <= 1000
        /\ \E n \in stats_start..Len(store) :
              response.body = StatsResult(n, ApprovedCount(Prefix(n)), Prefix(n))

\* C9: get_stats on a connected store that holds zero records (and answers
\* its queries) returns a normal result, not an error: total 0, approval rate 0
\* and the explicit "no data" message.
C9_EmptyStats ==
    (response.op = "stats" /\ stats_pc = "idle" /\ db # None /\ store = <<>>
        /\ "error" \notin DOMAIN response.body) =>
        /\ response.status = 200
        /\ "message" \in DOMAIN response.body
        /\ response.body.total_predictions = 0
        /\ response.body.approval_rate = 0
        /\ response.body.message = "No predictions logged yet"

\* The timestamp a returned record carries, read back from its ISO string.
ParseIso(record) == record.timestamp.iso

\* C4: for every integer limit the endpoint accepts, get_recent_predictions
\* returns at most limit records (none for a limit below 1), ordered by
\* timestamp most recent first.
C4_RecentBounded ==
    (response.op = "recent" /\ response.status = 200) =>
        LET got == response.body.predictions
        IN  /\ response.body.count = Len(got)
            /\ Len(got) <= Max(response.request, 0)
            /\ \A i, j \in 1..Len(got) :
                  i < j => ParseIso(got[i]) >= ParseIso(got[j])

\* C5: calculate_loan_terms assigns exactly one tier to every score of 0..850:
\* Prime (12 months, 8.99) iff score >= 750, Near-Prime (6, 14.99) iff
\* 650 <= score < 750, Subprime (4, 22.99) iff 550 <= score < 650, High Risk
\* iff score < 550; approved iff score >= 550; a declined result carries the
\* threshold reason; tier and approval do not depend on the purchase amount.
C5_TierPartition ==
    ret.done =>
        LET score == arg.credit_score
            terms == ret.value
        IN  /\ terms.risk_tier \in {"Prime", "Near-Prime", "Subprime", "High Risk"}
            /\ terms.risk_tier = "Prime" <=> score >= 750
            /\ terms.risk_tier = "Near-Prime" <=> (650 <= score /\ score < 750)
            /\ terms.risk_tier = "Subprime" <=> (550 <= score /\ score < 650)
            /\ terms.risk_tier = "High Risk" <=> score < 550
            /\ terms.approved <=> score >= 550
            /\ terms.approved =>
                  <<terms.term_months, terms.apr>> =
                      CASE terms.risk_tier = "Prime" -> <<12, 899>>
                        [] terms.risk_tier = "Near-Prime" -> <<6, 1499>>
                        [] OTHER -> <<4, 2299>>
            /\ ~terms.approved =>
                  /\ DOMAIN terms = {"approved", "reason", "risk_tier"}
                  /\ terms.reason = "Credit score below minimum threshold (550)"
            /\ \A other \in PurchaseAmounts :
                  LET t == calculate_loan_terms(score, other)
                  IN  t.risk_tier = terms.risk_tier /\ t.approved = terms.approved

\* The lowest Prime score, for a purchase that costs something.
C5_Witness ==
    /\ ret.done
    /\ arg.credit_score = 750
    /\ arg.purchase_amount = 3500
    /\ ret.value.risk_tier = "Prime"

\* The position in the priority order of the feature a factor is about.
FactorRank(name) ==
    CASE name \in {"High debt-to-income ratio", "Low debt-to-income ratio"} -> 1
      [] name \in {"Multiple late payments", "No late payments"} -> 2
      [] name \in {"High credit utilization", "Low credit utilization"} -> 3

FactorInput(f, name) ==
    CASE FactorRank(name) = 1 -> f.debt_to_income_ratio
      [] FactorRank(name) = 2 -> f.num_late_payments
      [] FactorRank(name) = 3 -> f.credit_utilization

\* C8: get_simple_explanation returns at most 3 factors, at most one per checked
\* feature, in the order debt-to-income ratio, late payments, credit
\* utilization; the list is empty exactly when the debt-to-income ratio is in
\* [0.3, 0.5], the late payments are 1 or 2 and the credit utilization is in
\* [0.3, 0.7]; each factor carries its name, the input value and a positive or
\* negative impact.
C8_Explanation ==
    ret.done =>
        LET e == ret.value
        IN  /\ Len(e) <= 3
            /\ \A i, j \in 1..Len(e) :
                  i < j => FactorRank(e[i].factor) < FactorRank(e[j].factor)
            /\ e = <<>> <=>
                  /\ arg.debt_to_income_ratio >= 30 /\ arg.debt_to_income_ratio <= 50
                  /\ arg.num_late_payments \in {1, 2}
                  /\ arg.credit_utilization >= 30 /\ arg.credit_utilization <= 70
            /\ \A i \in 1..Len(e) :
                  /\ DOMAIN e[i] = {"factor", "value", "impact"}
                  /\ e[i].value = FactorInput(arg, e[i].factor)
                  /\ e[i].impact \in {"positive", "negative"}

\* One late payment and both ratios on a band edge: no rule triggers.
C8_Witness ==
    /\ ret.done
    /\ arg.debt_to_income_ratio = 50
    /\ arg.num_late_payments = 1
    /\ arg.credit_utilization = 30
    /\ ret.value = <<>>

\* C7: an application with any feature outside its bound is rejected with a
\* validation error before scoring: the model is not called, no Decision is
\* produced and no record is appended.  Ages 17 and 101 are rejected with an
\* error about the field age; ages 18 and 100 are accepted.
C7_InvalidRejected ==
    /\ \A i \in 1..Len(store) : ~OutOfBounds(store[i].application)
    /\ response.op = "predict" =>
          IF OutOfBounds(response.request)
          THEN /\ response.status = 422
               /\ DOMAIN response.body = {"detail"}
               /\ response.body.detail # {}
               /\ response.request.age \in {17, 101} => "age" \in response.body.detail
               /\ ~scored
               /\ doc_id = <<>>
          ELSE /\ response.status # 422
               /\ response.status = 200 => scored

\* Age 17 was just rejected although the model is loaded and the store is up.
C7_Witness ==
    /\ response.op = "predict"
    /\ response.request.age = 17
    /\ response.status = 422
    /\ model # None
    /\ db # None
    /\ Len(store) > 0

\* C10: the store is append-only: a step either leaves the collection as it is
\* or appends one document (the application, the decision, a timestamp read
\* during the call and the model version) on behalf of a predict call that
\* logged; nothing is updated or deleted and the count never decreases.
C10_AppendOnly ==
    [][\/ store' = store
       \/ /\ Len(store') = Len(store) + 1
          /\ SubSeq(store', 1, Len(store)) = store
          /\ response'.op = "predict"
          /\ response'.status = 200
          /\ doc_id' = <<store'[Len(store')]._id>>
          /\ LET d == store'[Len(store')]
             IN  /\ d.application = response'.request
                 /\ d.prediction = Strip(response'.body)
                 /\ d.timestamp \in 0..now
                 /\ d.model_version = "1.0.0"]_vars

\* Two decisions logged, the one that read the clock later stored first, and
\* /stats or /recent answered since.
C10_Witness ==
    /\ Len(store) = 2
    /\ store[1].timestamp > store[2].timestamp
    /\ response.op \in {"stats", "recent"}

====
